---- MODULE Spec2Model ----
(***************************************************************************)
(* Model of the recipe helper core (src/src/recipe_helper.py): the         *)
(* ingredient normalizer, the match engine, the substitution table, the    *)
(* recipe resolver, the recipe explainer and the diet registry, over a     *)
(* catalog loaded once.                                                    *)
(*                                                                         *)
(* A Python str is a TLA+ string; its i-th character is SubSeq(s, i, i).   *)
(* A Python dict with string keys is a TLA+ function on a set of strings   *)
(* (a record), so r.get(k, d) is "IF k \in DOMAIN r THEN r[k] ELSE d".     *)
(* A Python list or tuple is a sequence.                                   *)
(***************************************************************************)
EXTENDS Integers, Sequences, FiniteSets, TLC

(* RECIPES and SUBSTITUTIONS are the module globals.  loaded records their  *)
(* values as loaded at import.  call is the call being made (its function  *)
(* and arguments), pc tells whether it has been made, result is its        *)
(* outcome, and calls counts the calls completed.                          *)
VARIABLES RECIPES, SUBSTITUTIONS, loaded, pc, call, result, calls

vars == <<RECIPES, SUBSTITUTIONS, loaded, pc, call, result, calls>>

-----------------------------------------------------------------------------
(* Characters.  The modelled characters, listed in ascending code point    *)
(* order, so that the position in Alphabet orders characters as Python's   *)
(* str comparison does.  The last one, written "~" to keep this text      *)
(* ASCII, stands for U+00B2 SUPERSCRIPT TWO, a character for which         *)
(* str.isdigit() is True and int() raises ValueError; it sorts after "z"   *)
(* and str.lower() leaves it alone, as for U+00B2.                         *)

Alphabet == "\t ,-0123456789;ABCDEFGHIJKLMNOPQRSTUVWXYZabcdefghijklmnopqrstuvwxyz~"

UpperCase == "ABCDEFGHIJKLMNOPQRSTUVWXYZ"

LowerCase == "abcdefghijklmnopqrstuvwxyz"

DecimalDigits == "0123456789"

SuperscriptTwo == "~"

CharsOf(s) == {SubSeq(s, i, i) : i \in 1..Len(s)}

IndexIn(s, c) == CHOOSE i \in 1..Len(s) : SubSeq(s, i, i) = c

Ord == [c \in CharsOf(Alphabet) |-> IndexIn(Alphabet, c)]

LowerOf == [c \in CharsOf(Alphabet) |->
              IF c \in CharsOf(UpperCase)
                THEN LET i == IndexIn(UpperCase, c) IN SubSeq(LowerCase, i, i)
                ELSE c]

DigitValue == [c \in CharsOf(DecimalDigits) |-> IndexIn(DecimalDigits, c) - 1]

IsSpace(c) == c \in {" ", "\t"}

-----------------------------------------------------------------------------
(* Built-in str operations used by the helper.                             *)

RECURSIVE lower(_)
lower(s) == IF s = "" THEN ""
            ELSE LowerOf[SubSeq(s, 1, 1)] \o lower(SubSeq(s, 2, Len(s)))

strip(s) ==
  LET keep == {i \in 1..Len(s) : ~IsSpace(SubSeq(s, i, i))}
  IN  IF keep = {} THEN ""
      ELSE LET first == CHOOSE i \in keep : \A j \in keep : i <= j
               last  == CHOOSE i \in keep : \A j \in keep : j <= i
           IN  SubSeq(s, first, last)

RECURSIVE replace(_, _, _)
replace(s, old, new) ==
  IF s = "" THEN ""
  ELSE (IF SubSeq(s, 1, 1) = old THEN new ELSE SubSeq(s, 1, 1))
         \o replace(SubSeq(s, 2, Len(s)), old, new)

(* s.split(sep) for a one-character sep: the fragments between separators, *)
(* empty fragments kept; "".split(",") is [""].                            *)
RECURSIVE split(_, _)
split(s, sep) ==
  LET at == {i \in 1..Len(s) : SubSeq(s, i, i) = sep}
  IN  IF at = {} THEN <<s>>
      ELSE LET i == CHOOSE k \in at : \A j \in at : k <= j
           IN  <<SubSeq(s, 1, i - 1)>> \o split(SubSeq(s, i + 1, Len(s)), sep)

(* sub in s *)
contains(s, sub) ==
  \E i \in 1..(Len(s) + 1) :
    i + Len(sub) - 1 <= Len(s) /\ SubSeq(s, i, i + Len(sub) - 1) = sub

isdigit(s) ==
  /\ s # ""
  /\ \A i \in 1..Len(s) :
       SubSeq(s, i, i) \in CharsOf(DecimalDigits) \cup {SuperscriptTwo}

(* int(s) accepts the decimal digits only. *)
IntRaises(s) == \E i \in 1..Len(s) : SubSeq(s, i, i) \notin CharsOf(DecimalDigits)

RECURSIVE int(_)
int(s) == IF s = "" THEN 0
          ELSE 10 * int(SubSeq(s, 1, Len(s) - 1)) + DigitValue[SubSeq(s, Len(s), Len(s))]

(* s < t for str: lexicographic on code points. *)
RECURSIVE StrLess(_, _)
StrLess(s, t) ==
  IF t = "" THEN FALSE
  ELSE IF s = "" THEN TRUE
  ELSE LET a == Ord[SubSeq(s, 1, 1)]
           b == Ord[SubSeq(t, 1, 1)]
       IN  IF a # b THEN a < b
           ELSE StrLess(SubSeq(s, 2, Len(s)), SubSeq(t, 2, Len(t)))

(* dict.get(key, default) *)
Get(d, key, default) == IF key \in DOMAIN d THEN d[key] ELSE default

-----------------------------------------------------------------------------
(* Ingredient normalizer.                                                  *)

normalize(text) == strip(lower(text))

(* Faulty variant of parse_ingredients: validate_ingredients of tests.py, which    *)
(* splits on commas only and does not lower-case.                          *)
validate_ingredients(text) ==
  LET frags == split(text, ",")
  IN  SelectSeq([i \in 1..Len(frags) |-> strip(frags[i])], LAMBDA p : p # "")

parse_ingredients(text) ==
  LET frags      == split(replace(text, ";", ","), ",")
      parts      == SelectSeq([i \in 1..Len(frags) |-> strip(frags[i])],
                              LAMBDA p : p # "")
      normalized == [i \in 1..Len(parts) |-> normalize(parts[i])]
  IN  normalized

-----------------------------------------------------------------------------
(* Outcomes of a call: it returns a value or raises.                       *)

Pending == [type |-> "pending"]

Return(v) == [type |-> "return", value |-> v]

Raise(e) == [type |-> "raise", error |-> e]

(* The empty dict {}. *)
EmptyDict == [k \in {} |-> k]

(* An optional str (a str or None) is a set holding at most one string:    *)
(* None is {}, and `if diet:` is false for None and for "".                *)
None == {}

(* Faulty variant of Truthy: the test written "is not None". *)
IsNotNone(opt) == opt # None

Truthy(opt) == opt # None /\ opt # {""}

TheStr(opt) == CHOOSE s \in opt : TRUE

-----------------------------------------------------------------------------
(* Match engine.                                                           *)

(* set([normalize(i) for i in xs]) *)
NormSet(xs) == {normalize(xs[i]) : i \in 1..Len(xs)}

(* Faulty variant of KeyLess: titles compared without regard to case. *)
KeyLessIgnoringCase(x, y) ==
  \/ (0 - x[2]) < (0 - y[2])
  \/ (x[2] = y[2] /\ StrLess(lower(x[1]["title"]), lower(y[1]["title"])))

(* The sort key (-x[1], x[0]["title"]) of an entry <<recipe, count>>,      *)
(* compared as Python compares tuples.                                     *)
KeyLess(x, y) ==
  \/ (0 - x[2]) < (0 - y[2])
  \/ (x[2] = y[2] /\ StrLess(x[1]["title"], y[1]["title"]))

(* list.sort is stable: an entry goes before the first one with a greater  *)
(* key, so after every earlier entry with an equal key.                    *)
Insert(sorted, x) ==
  LET greater == {i \in 1..Len(sorted) : KeyLess(x, sorted[i])}
  IN  IF greater = {} THEN Append(sorted, x)
      ELSE LET i == CHOOSE k \in greater : \A j \in greater : k <= j
           IN  SubSeq(sorted, 1, i - 1) \o <<x>> \o SubSeq(sorted, i, Len(sorted))

RECURSIVE SortMatches(_)
SortMatches(ms) ==
  IF ms = <<>> THEN <<>>
  ELSE Insert(SortMatches(SubSeq(ms, 1, Len(ms) - 1)), ms[Len(ms)])

(* The diet check of the loop body: TRUE when the recipe is skipped. *)
DietSkips(r, diet) ==
  /\ Truthy(diet)
  /\ LET ds    == Get(r, "diets", <<>>)
         diets == [i \in 1..Len(ds) |-> normalize(ds[i])]
     IN  \A i \in 1..Len(diets) : diets[i] # normalize(TheStr(diet))

(* Faulty variant of MatchCount: the recipe's ingredients counted as a list. *)
MatchCountOfList(ing_set, r) ==
  LET ings == Get(r, "ingredients", <<>>)
  IN  Cardinality({i \in 1..Len(ings) : normalize(ings[i]) \in ing_set})

MatchCount(ing_set, r) ==
  LET recipe_ings == NormSet(Get(r, "ingredients", <<>>))
      common      == ing_set \cap recipe_ings
  IN  Cardinality(common)

(* Faulty variant of Keeps: the threshold taken as exclusive. *)
KeepsStrict(count, min_match) == count > min_match

(* if count >= min_match *)
Keeps(count, min_match) == count >= min_match

(* The loop over the catalog, in catalog order. *)
RECURSIVE CollectMatches(_, _, _, _)
CollectMatches(catalog, ing_set, min_match, diet) ==
  IF catalog = <<>> THEN <<>>
  ELSE LET r     == Head(catalog)
           rest  == CollectMatches(Tail(catalog), ing_set, min_match, diet)
           count == MatchCount(ing_set, r)
       IN  IF DietSkips(r, diet) THEN rest
           ELSE IF Keeps(count, min_match) THEN <<<<r, count>>>> \o rest
           ELSE rest

MatchOn(catalog, ingredients, min_match, diet) ==
  LET ing_set == NormSet(ingredients)
      matches == CollectMatches(catalog, ing_set, min_match, diet)
  IN  SortMatches(matches)

match_recipes(ingredients, min_match, diet) ==
  MatchOn(RECIPES, ingredients, min_match, diet)

-----------------------------------------------------------------------------
(* Recipe explainer.                                                       *)

RECURSIVE join(_, _)
join(sep, xs) ==
  IF xs = <<>> THEN ""
  ELSE IF Len(xs) = 1 THEN xs[1]
  ELSE xs[1] \o sep \o join(sep, Tail(xs))

explain_recipe(recipe) ==
  LET header == <<Get(recipe, "title", "None") \o " ("
                    \o Get(recipe, "time", "N/A") \o ")">>
      ds     == Get(recipe, "diets", <<>>)
      tags   == IF ds # <<>> THEN <<"Dietary tags: " \o join(", ", ds)>> ELSE <<>>
      steps  == Get(recipe, "steps", <<>>)
      lines  == header \o tags \o <<"">>
                  \o [i \in 1..Len(steps) |->
                        "- Step " \o ToString(i) \o ": " \o steps[i]]
  IN  join("\n", lines)

-----------------------------------------------------------------------------
(* Substitution table.                                                     *)

SubstitutionTable ==
  [k \in {"butter", "milk", "egg", "sour cream", "cream", "broth",
          "chicken", "beef", "fish"} |->
     CASE k = "butter"     -> "oil"
       [] k = "milk"       -> "plant milk or water"
       [] k = "egg"        -> "mashed banana or applesauce (for baking)"
       [] k = "sour cream" -> "yogurt"
       [] k = "cream"      -> "milk"
       [] k = "broth"      -> "water + seasoning"
       [] k = "chicken"    -> "tofu or chickpeas"
       [] k = "beef"       -> "lentils or mushrooms"
       [] k = "fish"       -> "tofu or beans"]

NoSuggestion == "I don't have a suggestion for that ingredient"

(* Faulty variant of suggest_substitute: the lookup made on the raw input. *)
suggest_substitute_raw(ingredient) ==
  Get(SUBSTITUTIONS, ingredient, NoSuggestion)

suggest_substitute(ingredient) ==
  LET k == normalize(ingredient)
  IN  Get(SUBSTITUTIONS, k, NoSuggestion)

-----------------------------------------------------------------------------
(* Recipe resolver.                                                        *)

(* Faulty variant of find_recipe_by_title_or_index: the numeral taken as a 0-based *)
(* index.                                                                  *)
find_recipe_zero_based(query) ==
  LET q    == normalize(query)
      hits == {i \in 1..Len(RECIPES) :
                 contains(normalize(Get(RECIPES[i], "title", "")), q)}
      scan == IF hits = {} THEN Return(EmptyDict)
              ELSE Return(RECIPES[CHOOSE i \in hits : \A j \in hits : i <= j])
  IN  IF isdigit(q)
        THEN IF IntRaises(q) THEN Raise("ValueError")
             ELSE LET idx == int(q)
                  IN  IF 0 <= idx /\ idx < Len(RECIPES)
                        THEN Return(RECIPES[idx + 1])
                        ELSE scan
        ELSE scan

(* Faulty variant of find_recipe_by_title_or_index: the query looked for   *)
(* in the raw title.                                                       *)
find_recipe_in_raw_title(query) ==
  LET q    == normalize(query)
      hits == {i \in 1..Len(RECIPES) : contains(Get(RECIPES[i], "title", ""), q)}
      scan == IF hits = {} THEN Return(EmptyDict)
              ELSE Return(RECIPES[CHOOSE i \in hits : \A j \in hits : i <= j])
  IN  IF isdigit(q)
        THEN IF IntRaises(q) THEN Raise("ValueError")
             ELSE LET idx == int(q) - 1
                  IN  IF 0 <= idx /\ idx < Len(RECIPES)
                        THEN Return(RECIPES[idx + 1])
                        ELSE scan
        ELSE scan

find_recipe_by_title_or_index(query) ==
  LET q    == normalize(query)
      hits == {i \in 1..Len(RECIPES) :
                 contains(normalize(Get(RECIPES[i], "title", "")), q)}
      scan == IF hits = {} THEN Return(EmptyDict)
              ELSE Return(RECIPES[CHOOSE i \in hits : \A j \in hits : i <= j])
  IN  IF isdigit(q)
        THEN IF IntRaises(q) THEN Raise("ValueError")
             ELSE LET idx == int(q) - 1
                  IN  IF 0 <= idx /\ idx < Len(RECIPES)
                        THEN Return(RECIPES[idx + 1])
                        ELSE scan
        ELSE scan

-----------------------------------------------------------------------------
(* Diet registry.                                                          *)

RECURSIVE sorted(_)
sorted(S) ==
  IF S = {} THEN <<>>
  ELSE LET m == CHOOSE x \in S : \A y \in S : ~StrLess(y, x)
       IN  <<m>> \o sorted(S \ {m})

(* Faulty variant of get_available_diets: the tags normalized before the union. *)
get_normalized_diets ==
  LET diets == UNION {NormSet(Get(RECIPES[i], "diets", <<>>)) :
                      i \in 1..Len(RECIPES)}
  IN  sorted(diets)

get_available_diets ==
  LET diets == UNION {{Get(RECIPES[i], "diets", <<>>)[j] :
                         j \in 1..Len(Get(RECIPES[i], "diets", <<>>))} :
                      i \in 1..Len(RECIPES)}
  IN  sorted(diets)

-----------------------------------------------------------------------------
(* Bounds of the model.                                                    *)

MaxRecipes == 3

MaxMinMatch == 3

MaxTextLen == 3

MaxCalls == 2

-----------------------------------------------------------------------------
(* Catalogs.  recipes.json is data: the catalog is any list of at most     *)
(* MaxRecipes records of the pool.  The pool has two records with the same *)
(* title, titles that differ by case only, a title holding a digit,        *)
(* ingredients repeated and written in mixed case with surrounding         *)
(* whitespace, and records without the optional fields.                    *)

RecipePool ==
  { [title |-> "Apple Pie", ingredients |-> <<"Apple", " egg ", "apple">>,
     diets |-> <<"Vegan">>, steps |-> <<"mix", "bake">>, time |-> "20 minutes"],
    [title |-> "apple pie", ingredients |-> <<"egg", "milk">>,
     diets |-> <<"vegan", "Halal ">>],
    [title |-> "Bread 2", ingredients |-> <<"MILK", "egg", "apple">>],
    [title |-> "Apple Pie", diets |-> <<>>, steps |-> <<"serve">>] }

SeqsUpTo(S, n) == UNION {[1..k -> S] : k \in 0..n}

Catalogs == SeqsUpTo(RecipePool, MaxRecipes)

Range(xs) == {xs[i] : i \in 1..Len(xs)}

-----------------------------------------------------------------------------
(* Arguments of the calls.                                                 *)

(* Every string of at most n characters of chars. *)
RECURSIVE StringsUpTo(_, _)
StringsUpTo(chars, n) ==
  IF n = 0 THEN {""}
  ELSE LET shorter == StringsUpTo(chars, n - 1)
       IN  shorter \cup {s \o c : s \in shorter, c \in chars}

ParseTexts == StringsUpTo({"a", "B", " ", ",", ";"}, MaxTextLen)

Pads == {"", " ", "\t "}

Padded(words) == {l \o w \o r : l \in Pads, w \in words, r \in Pads}

SubstituteWords ==
  {"butter", "Butter", "BUTTER", "milk", "Egg", "sour cream", "Sour Cream",
   "cream", "broth", "chicken", "beef", "FISH",
   "", "kale", "butter milk", "ice cream", "creamy", "sour  cream",
   "sourcream", "eggs", "but", "oil", "egg,"}

SubstituteInputs == Padded(SubstituteWords)

IngredientLists ==
  { <<>>,
    <<"milk">>,
    <<"apple", "milk", "egg">>,
    <<"EGG", " milk ", "Apple", "egg">>,
    <<" APPLE", "apple", "kale">> }

MinMatches == (0 - 1)..MaxMinMatch

Diets == {None, {""}, {" Vegan"}, {"HALAL"}, {"keto"}, {"  "}}

Numerals == {ToString(k) : k \in 0..(MaxRecipes + 1)}

Queries ==
  Numerals \cup {" 0" \o n \o "\t" : n \in Numerals}
    \cup {"", " ", "12", SuperscriptTwo, " 1" \o SuperscriptTwo \o " ",
          "pie", " PIE", "Apple", "apple p", "bread 2", "d 2", "zz", "2 x"}

ParseCalls(texts) == {[op |-> "parse_ingredients", text |-> t] : t \in texts}

MatchCalls(lists, mins, ds) ==
  {[op |-> "match_recipes", ingredients |-> xs, min_match |-> m, diet |-> d] :
     xs \in lists, m \in mins, d \in ds}

ExplainCalls(recipes) == {[op |-> "explain_recipe", recipe |-> r] : r \in recipes}

SubstituteCalls(words) ==
  {[op |-> "suggest_substitute", ingredient |-> w] : w \in words}

FindCalls(qs) == {[op |-> "find_recipe_by_title_or_index", query |-> q] : q \in qs}

DietsCalls == {[op |-> "get_available_diets"]}

(* The first call of a run, over a catalog. *)
FirstCalls(catalog) ==
  ParseCalls({"", ",, ,", "apple,  Milk ; , bread  ;Egg,egg"})
    \cup MatchCalls({<<"milk">>, <<"apple", "milk", "egg">>}, {0, 2}, {None, {" Vegan"}})
    \cup ExplainCalls(Range(catalog))
    \cup SubstituteCalls({"Butter", "kale"})
    \cup FindCalls(Queries)
    \cup DietsCalls

(* The calls that follow it. *)
LaterCalls(catalog) ==
  ParseCalls({"a;B"})
    \cup MatchCalls({<<"apple", "milk", "egg">>}, {0, 2}, {None, {"HALAL"}})
    \cup ExplainCalls(Range(catalog))
    \cup SubstituteCalls({" butter "})
    \cup FindCalls({"2", "pie"})
    \cup DietsCalls

-----------------------------------------------------------------------------
(* The calls.  Each function reads the globals and writes none of them.    *)

Made(outcome) ==
  /\ result' = outcome
  /\ pc' = "done"
  /\ calls' = calls + 1
  /\ UNCHANGED <<loaded, call>>

ParseIngredients ==
  /\ pc = "call" /\ call.op = "parse_ingredients"
  /\ Made(Return(parse_ingredients(call.text)))
  /\ UNCHANGED <<RECIPES, SUBSTITUTIONS>>

(* Faulty variant of MatchRecipes: the catalog itself sorted by title, in place. *)
MatchRecipesSortingCatalog ==
  /\ pc = "call" /\ call.op = "match_recipes"
  /\ Made(Return(match_recipes(call.ingredients, call.min_match, call.diet)))
  /\ LET byTitle == SortMatches([i \in 1..Len(RECIPES) |-> <<RECIPES[i], 0>>])
     IN  RECIPES' = [i \in 1..Len(RECIPES) |-> byTitle[i][1]]
  /\ UNCHANGED SUBSTITUTIONS

MatchRecipes ==
  /\ pc = "call" /\ call.op = "match_recipes"
  /\ Made(Return(match_recipes(call.ingredients, call.min_match, call.diet)))
  /\ UNCHANGED <<RECIPES, SUBSTITUTIONS>>

ExplainRecipe ==
  /\ pc = "call" /\ call.op = "explain_recipe"
  /\ Made(Return(explain_recipe(call.recipe)))
  /\ UNCHANGED <<RECIPES, SUBSTITUTIONS>>

SuggestSubstitute ==
  /\ pc = "call" /\ call.op = "suggest_substitute"
  /\ Made(Return(suggest_substitute(call.ingredient)))
  /\ UNCHANGED <<RECIPES, SUBSTITUTIONS>>

FindRecipe ==
  /\ pc = "call" /\ call.op = "find_recipe_by_title_or_index"
  /\ Made(find_recipe_by_title_or_index(call.query))
  /\ UNCHANGED <<RECIPES, SUBSTITUTIONS>>

GetAvailableDiets ==
  /\ pc = "call" /\ call.op = "get_available_diets"
  /\ Made(Return(get_available_diets))
  /\ UNCHANGED <<RECIPES, SUBSTITUTIONS>>

(* The caller goes on to another call. *)
NextCall ==
  /\ pc = "done" /\ calls < MaxCalls
  /\ call' \in LaterCalls(RECIPES)
  /\ pc' = "call"
  /\ result' = Pending
  /\ UNCHANGED <<RECIPES, SUBSTITUTIONS, loaded, calls>>

Load(catalog) ==
  /\ RECIPES = catalog
  /\ SUBSTITUTIONS = SubstitutionTable
  /\ loaded = [RECIPES |-> RECIPES, SUBSTITUTIONS |-> SUBSTITUTIONS]
  /\ pc = "call"
  /\ result = Pending
  /\ calls = 0

Init ==
  \E catalog \in Catalogs :
    /\ Load(catalog)
    /\ call \in FirstCalls(catalog)

Next ==
  \/ ParseIngredients
  \/ MatchRecipes
  \/ ExplainRecipe
  \/ SuggestSubstitute
  \/ FindRecipe
  \/ GetAvailableDiets
  \/ NextCall

Spec == Init /\ [][Next]_vars

(* The match engine alone, over every catalog, ingredient list, threshold *)
(* and diet of the bounds.                                                 *)
InitMatch ==
  \E catalog \in Catalogs :
    /\ Load(catalog)
    /\ call \in MatchCalls(IngredientLists, MinMatches, Diets)

NextMatch == MatchRecipes

SpecMatch == InitMatch /\ [][NextMatch]_vars

(* The string functions alone, over every text of the bound and the padded *)
(* substitution words; they read no catalog.                               *)
InitText ==
  /\ Load(<<>>)
  /\ call \in ParseCalls(ParseTexts) \cup SubstituteCalls(SubstituteInputs)

NextText == ParseIngredients \/ SuggestSubstitute

SpecText == InitText /\ [][NextText]_vars

-----------------------------------------------------------------------------
(* Vocabulary of the properties, stated apart from the operators above.    *)

Done(op) == pc = "done" /\ call.op = op

Returned(op) == Done(op) /\ result.type = "return"

(* Lower-cased and trimmed. *)
Norm(s) == strip(lower(s))

NamesOf(xs) == {Norm(xs[i]) : i \in 1..Len(xs)}

IngredientsOf(r) == IF "ingredients" \in DOMAIN r THEN r.ingredients ELSE <<>>

DietsOf(r) == IF "diets" \in DOMAIN r THEN r.diets ELSE <<>>

(* The names the query and the recipe have in common. *)
SharedNames(query, r) ==
  {n \in NamesOf(query) : \E j \in 1..Len(IngredientsOf(r)) : Norm(IngredientsOf(r)[j]) = n}

Occurrences(xs, x) == Cardinality({i \in 1..Len(xs) : xs[i] = x})

RecipesIn(matches) == [i \in 1..Len(matches) |-> matches[i][1]]

(* s <= t, case-sensitive and lexicographic. *)
StrLeq(s, t) == s = t \/ StrLess(s, t)

-----------------------------------------------------------------------------
(* C1: with no diet filter, match_recipes returns a catalog recipe if and  *)
(* only if the query and the recipe share at least min_match normalized    *)
(* ingredient names, for every min_match, zero and negative included; a    *)
(* qualifying recipe appears once per place it has in the catalog, and     *)
(* nothing outside the catalog appears.                                    *)
C1_ThresholdMembership ==
  (Returned("match_recipes") /\ call.diet \in {None, {""}}) =>
    LET got == RecipesIn(result.value)
    IN  /\ Range(got) \subseteq Range(RECIPES)
        /\ \A r \in Range(RECIPES) :
             Occurrences(got, r) =
               IF Cardinality(SharedNames(call.ingredients, r)) >= call.min_match
                 THEN Occurrences(RECIPES, r)
                 ELSE 0

(* A call without diet and with threshold 3 over three recipes kept the   *)
(* one that shares exactly three names and dropped the others.             *)
C1_Witness ==
  /\ Returned("match_recipes") /\ call.diet = None
  /\ call.min_match = 3
  /\ Len(result.value) = 1
  /\ result.value[1][2] = 3
  /\ Len(RECIPES) = 3
  /\ Cardinality(Range(RECIPES)) = 3

(* A negative threshold over a catalog that holds one record twice kept    *)
(* it twice, with count 0.                                                 *)
C1_CaseNegativeThreshold ==
  /\ Returned("match_recipes") /\ call.diet = None
  /\ call.min_match < 0
  /\ \E r \in Range(RECIPES) :
       Occurrences(RECIPES, r) = 2 /\ Occurrences(RecipesIn(result.value), r) = 2
  /\ \E i \in 1..Len(result.value) : result.value[i][2] = 0

-----------------------------------------------------------------------------
(* C2: in a result of match_recipes, counts never increase; among equal    *)
(* counts the raw titles never decrease under case-sensitive comparison;   *)
(* and entries equal in count and title keep their catalog order.          *)
C2_Ranking ==
  Returned("match_recipes") =>
    LET ms == result.value
    IN  /\ \A i, j \in 1..Len(ms) :
             i < j => /\ ms[i][2] >= ms[j][2]
                      /\ ms[i][2] = ms[j][2] => StrLeq(ms[i][1].title, ms[j][1].title)
        /\ \A k \in 1..Len(ms) :
             LET sameKey(x) == x[2] = ms[k][2] /\ x[1].title = ms[k][1].title
                 listed(r)  == r.title = ms[k][1].title /\ <<r, ms[k][2]>> \in Range(ms)
             IN  RecipesIn(SelectSeq(ms, sameKey)) = SelectSeq(RECIPES, listed)

(* Three entries: a higher count first, though last in the catalog, then  *)
(* two different records equal in count and title, in catalog order.       *)
C2_Witness ==
  /\ Returned("match_recipes")
  /\ LET ms == result.value
     IN  /\ Len(ms) = 3
         /\ ms[1][2] > ms[2][2]
         /\ ms[1][1] = RECIPES[3]
         /\ ms[2][2] = ms[3][2]
         /\ ms[2][1].title = ms[3][1].title
         /\ ms[2][1] # ms[3][1]

(* Equal counts: the capitalized title precedes the lower-case one, which  *)
(* is first in the catalog.                                                *)
C2_CaseTitleOrder ==
  /\ Returned("match_recipes")
  /\ LET ms == result.value
     IN  /\ Len(ms) = 2
         /\ ms[1][2] = ms[2][2]
         /\ ms[1][1].title = "Bread 2"
         /\ ms[2][1].title = "apple pie"
         /\ RECIPES[1].title = "apple pie"

-----------------------------------------------------------------------------
(* C3: with a diet, a recipe that meets the threshold is in the result if  *)
(* and only if the normalized diet is among the recipe's normalized diets, *)
(* a recipe without diets having none; with diet absent or "", the result  *)
(* is the unfiltered one.                                                  *)
C3_DietFilter ==
  Returned("match_recipes") =>
    LET got == Range(RecipesIn(result.value))
    IN  IF call.diet \in {None, {""}}
          THEN result.value = MatchOn(RECIPES, call.ingredients, call.min_match, None)
          ELSE \A r \in Range(RECIPES) :
                 Cardinality(SharedNames(call.ingredients, r)) >= call.min_match =>
                   (r \in got <=> \E d \in call.diet : Norm(d) \in NamesOf(DietsOf(r)))

(* A diet written in another case and padded kept a recipe and dropped    *)
(* one that met the threshold but has no diets field.                      *)
C3_Witness ==
  /\ Returned("match_recipes")
  /\ call.diet = {" Vegan"}
  /\ Len(result.value) >= 1
  /\ \E r \in Range(RECIPES) :
       /\ "diets" \notin DOMAIN r
       /\ Cardinality(SharedNames(call.ingredients, r)) >= call.min_match

(* A call with diet "" returned recipes, one of them without diets. *)
C3_CaseEmptyDiet ==
  /\ Returned("match_recipes")
  /\ call.diet = {""}
  /\ Len(result.value) >= 2
  /\ \E i \in 1..Len(result.value) : "diets" \notin DOMAIN result.value[i][1]

-----------------------------------------------------------------------------
IsSeparator(c) == c \in {",", ";"}

(* The fragments of text, by the places of its separators. *)
Fragments(text) ==
  LET n      == Len(text)
      cuts   == {0, n + 1} \cup {i \in 1..n : IsSeparator(SubSeq(text, i, i))}
      cut(k) == CHOOSE c \in cuts : Cardinality({d \in cuts : d < c}) = k - 1
  IN  [k \in 1..(Cardinality(cuts) - 1) |-> SubSeq(text, cut(k) + 1, cut(k + 1) - 1)]

C4_CaseDuplicates ==
  Done("parse_ingredients") /\ call.text = "a,a" /\ result = Return(<<"a", "a">>)

(* A padded fragment is trimmed and lower-cased. *)
C4_CaseTrimmed ==
  Done("parse_ingredients") /\ call.text = " B " /\ result = Return(<<"b">>)

(* Separators and whitespace only: the empty list. *)
C4_CaseNoTokens ==
  Done("parse_ingredients") /\ call.text = ", ;" /\ result = Return(<<>>)

-----------------------------------------------------------------------------
(* A numeral without its leading zeros. *)
RECURSIVE StripZeros(_)
StripZeros(s) == IF s # "" /\ SubSeq(s, 1, 1) = "0" THEN StripZeros(SubSeq(s, 2, Len(s))) ELSE s

C5_CasePaddedNumeral ==
  /\ Done("find_recipe_by_title_or_index")
  /\ call.query = " 03\t"
  /\ Len(RECIPES) = 3
  /\ result = Return(RECIPES[3])

-----------------------------------------------------------------------------
(* The catalog places a normalized query q resolves to: by index or by    *)
(* title.                                                                  *)
ResolvesTo(q) ==
  {i \in 1..Len(RECIPES) :
     \/ StripZeros(q) = ToString(i) /\ isdigit(q)
     \/ contains(Norm(RECIPES[i].title), q)}

(* C6: find_recipe_by_title_or_index never raises, whatever the query,     *)
(* digit-like characters included: it returns a catalog recipe or the      *)
(* empty-record sentinel, the sentinel only when the query resolves to no  *)
(* catalog entry, and no catalog recipe is the sentinel.                   *)
C6_NeverRaises ==
  Done("find_recipe_by_title_or_index") =>
    /\ result.type = "return"
    /\ result.value = EmptyDict \/ result.value \in Range(RECIPES)
    /\ result.value = EmptyDict => ResolvesTo(Norm(call.query)) = {}
    /\ EmptyDict \notin Range(RECIPES)

(* What the code does keep of C6: whenever the call returns, the value is  *)
(* a catalog recipe or the sentinel, the sentinel only for a query that    *)
(* resolves to nothing.                                                    *)
C6_WhenItReturns ==
  Returned("find_recipe_by_title_or_index") =>
    /\ result.value = EmptyDict \/ result.value \in Range(RECIPES)
    /\ result.value = EmptyDict => ResolvesTo(Norm(call.query)) = {}
    /\ EmptyDict \notin Range(RECIPES)

(* The call that raises: a query the numeric test accepts and int() does   *)
(* not.                                                                    *)
C6_CaseRaises ==
  /\ Done("find_recipe_by_title_or_index")
  /\ call.query = SuperscriptTwo
  /\ result = Raise("ValueError")

-----------------------------------------------------------------------------
(* C7: suggest_substitute always returns a non-empty string and never      *)
(* raises: the suggestion of the key that the lower-cased, trimmed input   *)
(* is, and the one fixed message for every other input, the empty string   *)
(* and the inputs that merely contain a key included.                      *)
C7_SuggestSubstitute ==
  Done("suggest_substitute") =>
    /\ result.type = "return"
    /\ result.value # ""
    /\ LET k == Norm(call.ingredient)
       IN  IF k \in DOMAIN SubstitutionTable
             THEN result.value = SubstitutionTable[k]
             ELSE result.value = NoSuggestion
    /\ call.ingredient \in {"Butter", " butter "} => result.value = "oil"

(* " butter " gave "oil". *)
C7_Witness ==
  /\ Done("suggest_substitute")
  /\ call.ingredient = " butter "
  /\ result = Return("oil")

(* An input that contains a key, and the empty string, gave the message. *)
C7_CaseContainsKey ==
  /\ Done("suggest_substitute")
  /\ call.ingredient = "ice cream"
  /\ result = Return(NoSuggestion)

C7_CaseEmpty ==
  /\ Done("suggest_substitute")
  /\ call.ingredient = ""
  /\ result = Return(NoSuggestion)

-----------------------------------------------------------------------------
(* C8: get_available_diets returns a list in strictly ascending            *)
(* lexicographic order, so without a repeated element, whose elements are  *)
(* the union of the diets fields of the catalog's recipes; a recipe        *)
(* without the field adds nothing and raises nothing.                      *)
C8_AvailableDiets ==
  Done("get_available_diets") =>
    /\ result.type = "return"
    /\ LET ds == result.value
       IN  /\ \A i \in 1..(Len(ds) - 1) : StrLess(ds[i], ds[i + 1])
           /\ Range(ds) = UNION {Range(DietsOf(r)) : r \in Range(RECIPES)}

(* Three tags from two recipes that share none verbatim, over a catalog    *)
(* that also holds a recipe without diets: upper case sorts first.         *)
C8_Witness ==
  /\ Done("get_available_diets")
  /\ result = Return(<<"Halal ", "Vegan", "vegan">>)
  /\ \E r \in Range(RECIPES) : "diets" \notin DOMAIN r

-----------------------------------------------------------------------------
(* C9: after any sequence of calls the catalog and the substitution table  *)
(* are as loaded, so match_recipes returns what it returns on the loaded   *)
(* catalog, at every point of the sequence.                                *)
C9_CatalogUnchanged ==
  /\ RECIPES = loaded.RECIPES
  /\ SUBSTITUTIONS = loaded.SUBSTITUTIONS
  /\ SUBSTITUTIONS = SubstitutionTable
  /\ Done("match_recipes") =>
       result = Return(MatchOn(loaded.RECIPES, call.ingredients,
                               call.min_match, call.diet))

(* A second call, a match_recipes that returned two recipes in an order    *)
(* other than the catalog's.                                               *)
C9_Witness ==
  /\ calls = 2
  /\ Returned("match_recipes")
  /\ Len(result.value) = 2
  /\ Len(RECIPES) = 2
  /\ result.value[1][1] = RECIPES[2]
  /\ result.value[2][1] = RECIPES[1]

-----------------------------------------------------------------------------
(* C10: the match_count of an entry is the number of distinct normalized   *)
(* names the query and the recipe share: a name repeated, written in       *)
(* another case or padded, on either side, counts once, and the count      *)
(* exceeds the number of distinct names of neither side.                   *)
C10_MatchCount ==
  Returned("match_recipes") =>
    /\ \A i \in 1..Len(result.value) :
         LET r     == result.value[i][1]
             count == result.value[i][2]
         IN  /\ count = Cardinality(SharedNames(call.ingredients, r))
             /\ count <= Cardinality(NamesOf(call.ingredients))
             /\ count <= Cardinality(NamesOf(IngredientsOf(r)))
    /\ \A other \in IngredientLists :
         NamesOf(other) = NamesOf(call.ingredients) =>
           MatchOn(RECIPES, other, call.min_match, call.diet) = result.value

(* A query that repeats a name in another case, against a recipe that      *)
(* repeats it too: counted once.                                           *)
C10_Witness ==
  /\ Returned("match_recipes")
  /\ call.ingredients = <<" APPLE", "apple", "kale">>
  /\ \E i \in 1..Len(result.value) :
       /\ IngredientsOf(result.value[i][1]) = <<"Apple", " egg ", "apple">>
       /\ result.value[i][2] = 1

-----------------------------------------------------------------------------
(* Only decimal digits, and at least one. *)
IsDecimalNumeral(q) ==
  q # "" /\ \A i \in 1..Len(q) : SubSeq(q, i, i) \in CharsOf(DecimalDigits)

(* Digit-like characters only, and at least one: what the numeric test     *)
(* accepts.                                                                *)
IsNumeric(q) ==
  q # "" /\ \A i \in 1..Len(q) :
              SubSeq(q, i, i) \in CharsOf(DecimalDigits) \cup {SuperscriptTwo}

(* A decimal numeral that is the 1-based index of no catalog entry. *)
OutOfRange(q) ==
  IsDecimalNumeral(q) /\ \A k \in 1..Len(RECIPES) : StripZeros(q) # ToString(k)

(* The first recipe, in catalog order, whose normalized title contains q,  *)
(* or the sentinel when there is none.                                     *)
FirstTitled(q) ==
  LET titled == {i \in 1..Len(RECIPES) : contains(Norm(RECIPES[i].title), q)}
  IN  IF titled = {} THEN EmptyDict
      ELSE RECIPES[CHOOSE i \in titled : \A j \in titled : i <= j]

C11_CaseFirstInCatalogOrder ==
  /\ Done("find_recipe_by_title_or_index")
  /\ call.query = " PIE"
  /\ Len(RECIPES) = 3
  /\ RECIPES[1].title = "Bread 2"
  /\ RECIPES[2].title = "apple pie"
  /\ RECIPES[3].title = "Apple Pie"
  /\ result = Return(RECIPES[2])

(* An out-of-range numeral that no title contains returned the sentinel. *)
C11_CaseNotFound ==
  /\ Done("find_recipe_by_title_or_index")
  /\ call.query = "0"
  /\ Len(RECIPES) = 3
  /\ result = Return(EmptyDict)

====
